---- MODULE Spec2Model ----
(***************************************************************************)
(* Batch queue scheduler of the art inspector (src/App.tsx) together with  *)
(* the retry wrapper and the remote operations it drives                   *)
(* (src/unnamed/part_000).                                                 *)
(*                                                                         *)
(* Strings that the code inspects (error messages) are sequences of        *)
(* one-character strings, so that includes(), toLowerCase() and slice()    *)
(* are computed and not assumed.                                           *)
(***************************************************************************)
EXTENDS Integers, Sequences, FiniteSets, TLC

\* ---------------------------------------------------------------- bounds
\* the scheduler specification (Spec)
MaxItems == 2
MaxControls == 1
MaxFaults == 1
\* the pipeline specification (SpecPipe)
PipeItems == 1
PipeControls == 1
PipeFaults == 3
\* products one extraction returns
MaxProducts == 2
\* the specification with two caller control operations (SpecCtl)
CtlItems == 2
CtlControls == 2
CtlFaults == 1
CtlProducts == 1
\* the fair specification (SpecLive)
LiveItems == 2
LiveControls == 1
LiveFaults == 1
LiveProducts == 1

\* ------------------------------------------------------ program constants
ForceDelayMs == 100
CooldownMs == 3000
SkuPauseMs == 500
RateBaseMs == 2000
OverloadBaseMs == 4000
FlatWaitMs == 1000
ExtractRetries == 3
ValidateRetries == 3
SpellingRetries == 2
MsgSliceLen == 50

MsgNoSku == <<"N","o"," ","s","e"," ","e","n","c","o","n","t","r","a","r","o","n"," ","c","ó","d","i","g","o","s"," ","S","K","U"," ","v","i","s","i","b","l","e","s",".">>
MsgFaltaKey == <<"F","a","l","t","a"," ","A","P","I"," ","K","e","y">>
MsgRateLimit == <<"L","í","m","i","t","e"," ","d","e"," ","v","e","l","o","c","i","d","a","d"," ","(","4","2","9",")","."," ","I","n","t","e","n","t","a","n","d","o"," ","c","o","n","t","i","n","u","a","r",".",".",".">>
MsgDefault == <<"E","r","r","o","r"," ","a","l"," ","p","r","o","c","e","s","a","r"," ","i","m","a","g","e","n",".">>
KeyMissingText == <<"A","P","I","_","K","E","Y","_","M","I","S","S","I","N","G">>
NoResponseText == <<"N","o"," ","r","e","s","p","o","n","s","e"," ","f","r","o","m"," ","A","I">>
RateText == <<"4","2","9"," ","T","o","o"," ","M","a","n","y"," ","R","e","q","u","e","s","t","s">>
OverText == <<"T","h","e"," ","m","o","d","e","l"," ","i","s"," ","o","v","e","r","l","o","a","d","e","d">>

\* ------------------------------------------------------------ text helpers
UpperLetters == <<"A","B","C","D","E","F","G","H","I","J","K","L","M","N","O","P","Q","R","S","T","U","V","W","X","Y","Z">>
LowerLetters == <<"a","b","c","d","e","f","g","h","i","j","k","l","m","n","o","p","q","r","s","t","u","v","w","x","y","z">>

LowerChar(c) ==
  IF \E i \in 1..26 : UpperLetters[i] = c
  THEN LowerLetters[CHOOSE i \in 1..26 : UpperLetters[i] = c]
  ELSE c

ToLowerCase(s) == [i \in 1..Len(s) |-> LowerChar(s[i])]

Includes(s, t) ==
  \E i \in 0..(Len(s) - Len(t)) : \A j \in 1..Len(t) : s[i + j] = t[j]

Slice(s, n) == IF Len(s) <= n THEN s ELSE SubSeq(s, 1, n)

\* ------------------------------------------------------------------ errors
NoError == [message |-> <<>>, status |-> 0]
ErrKeyMissing == [message |-> KeyMissingText, status |-> 0]
ErrNoResponse == [message |-> NoResponseText, status |-> 0]
ErrRate == [message |-> RateText, status |-> 429]
ErrOverloaded == [message |-> OverText, status |-> 503]
\* a rejection that carries a status but no message text
ErrBlank == [message |-> <<>>, status |-> 500]

\* what a remote invocation can throw once the client exists
RemoteErrors == {ErrNoResponse, ErrRate, ErrOverloaded, ErrBlank}

\* a rejection with status 429 whose message says the model is overloaded
ErrBoth == [message |-> OverText, status |-> 429]

\* the rejections the pipeline specification draws from
PipeErrors == RemoteErrors \cup {ErrBoth}

VARIABLES queue, isProcessing, processingRef, effect, pipes, timers,
          nextId, controls, faults, lim, call

vars == <<queue, isProcessing, processingRef, effect, pipes, timers,
          nextId, controls, faults, lim, call>>

\* the scheduler's variables; call holds the arguments and the result of a
\* function of the service or of the result card that is examined on its own
sched == <<queue, isProcessing, processingRef, effect, pipes, timers,
           nextId, controls, faults, lim>>

NoCall == [arg |-> <<>>, done |-> FALSE, ret |-> <<>>]

\* ------------------------------------------------------------ queue items
Statuses == {"PENDING", "ANALYZING", "VALIDATING", "COMPLETED", "ERROR"}

NewItem(id) ==
  [id |-> id, status |-> "PENDING", results |-> <<>>,
   spellingResult |-> "null", errorMsg |-> <<>>]

IdsOf(q) == {q[i].id : i \in DOMAIN q}

InFlight(st) == st \in {"ANALYZING", "VALIDATING"}
Terminal(st) == st \in {"COMPLETED", "ERROR"}

\* what a closure of a render can read of the queue: ids and statuses
Snapshot(q) == [i \in DOMAIN q |-> [id |-> q[i].id, status |-> q[i].status]]

HasPending(q) == \E i \in DOMAIN q : q[i].status = "PENDING"

\* queue.findIndex(i => i.status === 'PENDING'), 0 standing for -1
FindLastPending(q) ==
  IF HasPending(q)
  THEN CHOOSE i \in DOMAIN q :
         /\ q[i].status = "PENDING"
         /\ \A j \in DOMAIN q : q[j].status = "PENDING" => j <= i
  ELSE 0

\* queue.findIndex(i => i.status === 'PENDING'), 0 standing for -1
FindFirstPending(q) ==
  IF HasPending(q)
  THEN CHOOSE i \in DOMAIN q :
         /\ q[i].status = "PENDING"
         /\ \A j \in DOMAIN q : q[j].status = "PENDING" => i <= j
  ELSE 0

\* queue.findIndex(i => i.id === id), 0 standing for -1
FindIndexById(q, id) ==
  IF \E i \in DOMAIN q : q[i].id = id
  THEN CHOOSE i \in DOMAIN q :
         /\ q[i].id = id
         /\ \A j \in DOMAIN q : q[j].id = id => i <= j
  ELSE 0

updateItemStatus(q, id, status) ==
  [i \in DOMAIN q |-> IF q[i].id = id THEN [q[i] EXCEPT !.status = status] ELSE q[i]]

\* --------------------------------------------------------------- timers
\* setTimeout: a timer waits for every timer started before it whose
\* timeout is not larger than its own
TimerMayFire(ts, k) ==
  /\ k \in DOMAIN ts
  /\ \A j \in 1..(k - 1) : ts[j].ms > ts[k].ms

RemoveAt(s, k) == SubSeq(s, 1, k - 1) \o SubSeq(s, k + 1, Len(s))

ForceTimer(q) == [kind |-> "force", ms |-> ForceDelayMs, pid |-> 0, snap |-> Snapshot(q)]
CooldownTimer == [kind |-> "cool", ms |-> CooldownMs, pid |-> 0, snap |-> <<>>]
DelayTimer(pid, ms) == [kind |-> "delay", ms |-> ms, pid |-> pid, snap |-> <<>>]

\* ---------------------------------------------------------- runWithRetry
isRateLimit(err) ==
  \/ Includes(ToLowerCase(err.message), <<"4","2","9">>)
  \/ err.status = 429
  \/ Includes(ToLowerCase(err.message), <<"t","o","o"," ","m","a","n","y"," ","r","e","q","u","e","s","t","s">>)

isOverloaded(err) ==
  \/ Includes(ToLowerCase(err.message), <<"5","0","3">>)
  \/ err.status = 503
  \/ Includes(ToLowerCase(err.message), <<"o","v","e","r","l","o","a","d","e","d">>)

\* wait after the failed attempt with loop index i (0-based)
waitTimeZeroBased(err, i) ==
  IF isRateLimit(err) \/ isOverloaded(err)
  THEN (IF isOverloaded(err) THEN OverloadBaseMs ELSE RateBaseMs) * i
  ELSE FlatWaitMs

waitTime(err, i) ==
  IF isRateLimit(err) \/ isOverloaded(err)
  THEN (IF isOverloaded(err) THEN OverloadBaseMs ELSE RateBaseMs) * (i + 1)
  ELSE FlatWaitMs

RetriesOfOneMore(pc) ==
  CASE pc = "extract" -> ExtractRetries + 1
    [] pc = "lookup" -> ValidateRetries + 1
    [] pc = "spelling" -> SpellingRetries + 1
    [] OTHER -> 0

\* every call with the default value of the retries parameter
RetriesOfDefault(pc) ==
  CASE pc \in {"extract", "lookup", "spelling"} -> ExtractRetries
    [] OTHER -> 0

\* the retries argument of the runWithRetry call of each operation
RetriesOf(pc) ==
  CASE pc = "extract" -> ExtractRetries
    [] pc = "lookup" -> ValidateRetries
    [] pc = "spelling" -> SpellingRetries
    [] OTHER -> 0

\* --------------------------------------------------------------- pipelines
\* one record per running processItemAtIndex call
FreshPid == CHOOSE n \in 1..(Cardinality(pipes) + 1) : \A p \in pipes : p.pid # n

PipeOf(pid) == CHOOSE p \in pipes : p.pid = pid

catchErrorKeepFirst(p, err) ==
  [p EXCEPT !.phase = "wait",
            !.lastError = IF p.lastError = NoError THEN err ELSE p.lastError]

\* the catch of the retry loop: the error of the failed attempt replaces
\* lastError, and a wait follows
catchError(p, err) == [p EXCEPT !.phase = "wait", !.lastError = err]

\* the operation of a runWithRetry is invoked: getAiClient either yields a
\* client and the remote call is issued, or throws API_KEY_MISSING, which
\* the retry loop catches and follows by its flat wait
Invoke(p, keyOk) ==
  IF keyOk THEN [p EXCEPT !.phase = "call"]
  ELSE catchError(p, ErrKeyMissing)

InvokeTimers(ts, p, keyOk) ==
  IF keyOk THEN ts
  ELSE Append(ts, DelayTimer(p.pid, waitTime(ErrKeyMissing, p.attempt)))

\* a new runWithRetry call for step pc
BeginStep(p, pc, keyOk) ==
  Invoke([p EXCEPT !.pc = pc, !.attempt = 0, !.lastError = NoError], keyOk)

errorMsgForRateFirst(err) ==
  IF \/ Includes(err.message, <<"4","2","9">>)
     \/ Includes(err.message, <<"Q","u","o","t","a">>)
     \/ err.status = 429
  THEN MsgRateLimit
  ELSE IF err.message = KeyMissingText THEN MsgFaltaKey
  ELSE IF err.message # <<>> THEN Slice(err.message, MsgSliceLen)
  ELSE MsgDefault

\* the message shown for a failed item (catch of processItemAtIndex)
errorMsgFor(err) ==
  IF err.message = KeyMissingText THEN MsgFaltaKey
  ELSE IF \/ Includes(err.message, <<"4","2","9">>)
          \/ Includes(err.message, <<"Q","u","o","t","a">>)
          \/ err.status = 429
       THEN MsgRateLimit
  ELSE IF err.message # <<>> THEN Slice(err.message, MsgSliceLen)
  ELSE MsgDefault

storeResultsUpsert(q, p, spelling) ==
  LET done(i) == [i EXCEPT !.status = IF p.n > 0 THEN "COMPLETED" ELSE "ERROR",
                           !.results = p.res,
                           !.spellingResult = spelling,
                           !.errorMsg = IF p.n = 0 THEN MsgNoSku ELSE <<>>]
  IN IF \E i \in DOMAIN q : q[i].id = p.item
     THEN [i \in DOMAIN q |-> IF q[i].id = p.item THEN done(q[i]) ELSE q[i]]
     ELSE Append(q, done(NewItem(p.item)))

\* setQueue at the end of the try block
storeResults(q, p, spelling) ==
  [i \in DOMAIN q |->
     IF q[i].id = p.item
     THEN [q[i] EXCEPT !.status = IF p.n > 0 THEN "COMPLETED" ELSE "ERROR",
                       !.results = p.res,
                       !.spellingResult = spelling,
                       !.errorMsg = IF p.n = 0 THEN MsgNoSku ELSE <<>>]
     ELSE q[i]]

storeErrorMsgOnly(q, p, err) ==
  [i \in DOMAIN q |->
     IF q[i].id = p.item
     THEN [q[i] EXCEPT !.errorMsg = errorMsgFor(err)]
     ELSE q[i]]

\* setQueue of the catch block
storeError(q, p, err) ==
  [i \in DOMAIN q |->
     IF q[i].id = p.item
     THEN [q[i] EXCEPT !.status = "ERROR", !.errorMsg = errorMsgFor(err)]
     ELSE q[i]]

\* ------------------------------------------------------------ the effect
\* bookkeeping of the queue-watching effect around a handler, timer callback
\* or continuation that ran; changed: queue or isProcessing got a new value
Commit(changed) ==
  effect' = IF effect.state = "pending"
            THEN [state |-> "urgent", queue |-> Snapshot(queue),
                  proc |-> isProcessing, dirty |-> changed]
            ELSE [state |-> IF changed THEN "pending" ELSE "none",
                  queue |-> <<>>, proc |-> FALSE, dirty |-> FALSE]

Ready == effect.state # "urgent"

\* a control operation of the caller (everything but submitting images)
Control == controls < lim.controls /\ controls' = controls + 1

\* accounting of the anomalies of the environment: the client is missing
\* (keyOk false) only in a step that invokes an operation; other counts the
\* other anomalies of the step (an unusable response text)
Anomalies(invoked, keyOk, other) ==
  LET a == (IF keyOk THEN 0 ELSE 1) + other
  IN /\ keyOk \/ invoked
     /\ faults + a <= lim.faults
     /\ faults' = faults + a

KeyFault(invoked, keyOk) == Anomalies(invoked, keyOk, 0)

Start(l) ==
  /\ lim = l
  /\ queue = <<>>
  /\ isProcessing = FALSE
  /\ processingRef = FALSE
  /\ effect = [state |-> "none", queue |-> <<>>, proc |-> FALSE, dirty |-> FALSE]
  /\ pipes = {}
  /\ timers = <<>>
  /\ nextId = 1
  /\ controls = 0
  /\ faults = 0

Init ==
  /\ Start([items |-> MaxItems, controls |-> MaxControls, faults |-> MaxFaults,
            products |-> MaxProducts,
            errors |-> RemoteErrors])
  /\ call = NoCall

InitPipe ==
  /\ Start([items |-> PipeItems, controls |-> PipeControls, faults |-> PipeFaults,
            products |-> MaxProducts,
            errors |-> PipeErrors])
  /\ call = NoCall

InitCtl ==
  /\ Start([items |-> CtlItems, controls |-> CtlControls, faults |-> CtlFaults,
            products |-> CtlProducts,
            errors |-> RemoteErrors])
  /\ call = NoCall

InitLive ==
  /\ Start([items |-> LiveItems, controls |-> LiveControls, faults |-> LiveFaults,
            products |-> LiveProducts,
            errors |-> RemoteErrors])
  /\ call = NoCall

\* processItemAtIndex(index) called from a closure whose queue is cq; ts are
\* the timers pending when it is called
processItemAtIndex(cq, index, ts, keyOk) ==
  LET item == cq[index]
      p == BeginStep([pid |-> FreshPid, item |-> item.id, pc |-> "extract",
                      attempt |-> 0, phase |-> "call", lastError |-> NoError,
                      n |-> 0, res |-> <<>>], "extract", keyOk)
  IN /\ processingRef' = TRUE
     /\ isProcessing' = TRUE
     /\ queue' = updateItemStatus(queue, item.id, "ANALYZING")
     /\ pipes' = pipes \cup {p}
     /\ timers' = InvokeTimers(ts, p, keyOk)

\* does processNextItem, called from a closure whose queue is cq, start an item
NextItemStarts(cq) == ~processingRef /\ FindFirstPending(cq) # 0

processNextItem(cq, ts, keyOk) ==
  IF processingRef
  THEN timers' = ts /\ UNCHANGED <<queue, isProcessing, processingRef, pipes>>
  ELSE IF FindFirstPending(cq) = 0
       THEN timers' = ts /\ UNCHANGED <<queue, isProcessing, processingRef, pipes>>
       ELSE processItemAtIndex(cq, FindFirstPending(cq), ts, keyOk)

\* --------------------------------------------------------- caller actions
handleImagesSelectedInFront(k) ==
  /\ Ready
  /\ k >= 1
  /\ nextId + k - 1 <= lim.items
  /\ queue' = [i \in 1..k |-> NewItem(nextId + i - 1)] \o queue
  /\ nextId' = nextId + k
  /\ Commit(TRUE)
  /\ UNCHANGED <<isProcessing, processingRef, pipes, timers, controls, faults, lim, call>>

handleImagesSelected(k) ==
  /\ Ready
  /\ k >= 1
  /\ nextId + k - 1 <= lim.items
  /\ queue' = queue \o [i \in 1..k |-> NewItem(nextId + i - 1)]
  /\ nextId' = nextId + k
  /\ Commit(TRUE)
  /\ UNCHANGED <<isProcessing, processingRef, pipes, timers, controls, faults, lim, call>>

removeQueueItem(id) ==
  /\ Ready
  /\ Control
  /\ id \in IdsOf(queue)
  /\ LET keep(i) == i.id # id IN queue' = SelectSeq(queue, keep)
  /\ Commit(TRUE)
  /\ UNCHANGED <<isProcessing, processingRef, pipes, timers, nextId, faults, lim, call>>

cancelAllPending ==
  /\ Ready
  /\ \E i \in DOMAIN queue : ~Terminal(queue[i].status)
  /\ LET keep(i) == i.status = "COMPLETED" \/ i.status = "ERROR"
     IN queue' = SelectSeq(queue, keep)
  /\ isProcessing' = FALSE
  /\ processingRef' = FALSE
  /\ Commit(TRUE)
  /\ Control
  /\ UNCHANGED <<pipes, timers, nextId, faults, lim, call>>

clearQueue ==
  /\ Ready
  /\ queue # <<>>
  /\ queue' = <<>>
  /\ isProcessing' = FALSE
  /\ processingRef' = FALSE
  /\ Commit(TRUE)
  /\ Control
  /\ UNCHANGED <<pipes, timers, nextId, faults, lim, call>>

forceProcessQueueKeepsLock ==
  /\ Ready
  /\ HasPending(queue)
  /\ Control
  /\ timers' = Append(timers, ForceTimer(queue))
  /\ Commit(FALSE)
  /\ UNCHANGED <<queue, isProcessing, processingRef, pipes, nextId, faults, lim, call>>

forceProcessQueue ==
  /\ Ready
  /\ HasPending(queue)
  /\ Control
  /\ processingRef' = FALSE
  /\ isProcessing' = FALSE
  /\ timers' = Append(timers, ForceTimer(queue))
  /\ Commit(isProcessing)
  /\ UNCHANGED <<queue, pipes, nextId, faults, lim, call>>

processSpecificItem(id, keyOk) ==
  /\ Ready
  /\ \E i \in DOMAIN queue : queue[i].id = id /\ queue[i].status = "PENDING"
  /\ Control
  /\ KeyFault(~isProcessing, keyOk)
  /\ IF isProcessing
     THEN UNCHANGED <<queue, isProcessing, processingRef, effect, pipes, timers>>
     ELSE /\ FindIndexById(queue, id) # 0
          /\ processItemAtIndex(Snapshot(queue), FindIndexById(queue, id), timers, keyOk)
          /\ Commit(TRUE)
  /\ UNCHANGED <<nextId, lim, call>>

\* ------------------------------------------------- the queue-watching effect
runEffect(keyOk) ==
  /\ effect.state \in {"pending", "urgent"}
  /\ LET cq == IF effect.state = "urgent" THEN effect.queue ELSE Snapshot(queue)
         cp == IF effect.state = "urgent" THEN effect.proc ELSE isProcessing
         again == effect.state = "urgent" /\ effect.dirty
     IN IF HasPending(cq) /\ ~cp
        THEN /\ KeyFault(NextItemStarts(cq), keyOk)
             /\ processNextItem(cq, timers, keyOk)
             /\ effect' = [state |-> IF NextItemStarts(cq) \/ again THEN "pending" ELSE "none",
                           queue |-> <<>>, proc |-> FALSE, dirty |-> FALSE]
        ELSE /\ KeyFault(FALSE, keyOk)
             /\ UNCHANGED <<queue, isProcessing, processingRef, pipes, timers>>
             /\ effect' = [state |-> IF again THEN "pending" ELSE "none",
                           queue |-> <<>>, proc |-> FALSE, dirty |-> FALSE]
  /\ UNCHANGED <<nextId, controls, lim, call>>

\* ------------------------------------------------------------------ timers
forceTimerFires(k, keyOk) ==
  /\ Ready
  /\ TimerMayFire(timers, k)
  /\ timers[k].kind = "force"
  /\ processNextItem(timers[k].snap, RemoveAt(timers, k), keyOk)
  /\ KeyFault(NextItemStarts(timers[k].snap), keyOk)
  /\ IF NextItemStarts(timers[k].snap) THEN Commit(TRUE) ELSE UNCHANGED effect
  /\ UNCHANGED <<nextId, controls, lim, call>>

cooldownExpires(k) ==
  /\ Ready
  /\ TimerMayFire(timers, k)
  /\ timers[k].kind = "cool"
  /\ timers' = RemoveAt(timers, k)
  /\ processingRef' = FALSE
  /\ isProcessing' = FALSE
  /\ Commit(isProcessing)
  /\ UNCHANGED <<queue, pipes, nextId, controls, faults, lim, call>>

\* -------------------------------------------------- pipeline continuations
\* the step that follows the lookups done so far: the next lookup or the audit
NextStepOneLookup(p) == IF Len(p.res) < 1 THEN "lookup" ELSE "spelling"

\* after a lookup: the next product of the loop, or the spelling audit
NextStep(p) == IF Len(p.res) < p.n THEN "lookup" ELSE "spelling"

ReplacePipe(p, np) == (pipes \ {p}) \cup {np}

\* extractSkuFromImage resolves with n products (after deduplication)
extractReturns(pid, n, keyOk) ==
  /\ Ready
  /\ \E p \in pipes :
       /\ p.pid = pid /\ p.pc = "extract" /\ p.phase = "call"
       /\ IF n > 0
          THEN LET np == BeginStep([p EXCEPT !.n = n], "lookup", keyOk)
               IN /\ queue' = updateItemStatus(queue, p.item, "VALIDATING")
                  /\ pipes' = ReplacePipe(p, np)
                  /\ timers' = InvokeTimers(timers, np, keyOk)
                  /\ Commit(TRUE)
          ELSE LET np == BeginStep(p, "spelling", keyOk)
               IN /\ pipes' = ReplacePipe(p, np)
                  /\ timers' = InvokeTimers(timers, np, keyOk)
                  /\ UNCHANGED <<queue, effect>>
  /\ KeyFault(TRUE, keyOk)
  /\ UNCHANGED <<isProcessing, processingRef, nextId, controls, lim, call>>

\* the catalog the lookups run against: which of the codes it holds
CatalogHas(sku) == sku % 2 = 1

\* validateSkuWithWeb resolves: with the catalog's answer when the text parses,
\* with {found: false} when it does not
lookupReturns(pid, parses, keyOk) ==
  /\ Ready
  /\ \E p \in pipes :
       /\ p.pid = pid /\ p.pc = "lookup" /\ p.phase = "call"
       /\ LET sku == Len(p.res) + 1
              q == [p EXCEPT !.res = Append(@, [sku |-> sku,
                                                found |-> parses /\ CatalogHas(sku)])]
          IN IF q.n > 1
             THEN /\ pipes' = ReplacePipe(p, [q EXCEPT !.pc = "pause", !.phase = "wait"])
                  /\ timers' = Append(timers, DelayTimer(pid, SkuPauseMs))
             ELSE LET np == BeginStep(q, NextStep(q), keyOk)
                  IN /\ pipes' = ReplacePipe(p, np)
                     /\ timers' = InvokeTimers(timers, np, keyOk)
       /\ Anomalies(p.n <= 1, keyOk, IF parses THEN 0 ELSE 1)
  /\ UNCHANGED <<queue, isProcessing, processingRef, effect, nextId, controls, lim, call>>

finishPipelineNoRelease(p, ts) ==
  /\ pipes' = pipes \ {p}
  /\ timers' = ts

\* the finally block: the lock is released CooldownMs later
finishPipeline(p, ts) ==
  /\ pipes' = pipes \ {p}
  /\ timers' = Append(ts, CooldownTimer)

\* checkSpellingInImage resolves, with the parsed report or, when the response
\* has no text, with the neutral report: end of the try block, then finally
spellingReturns(pid, spelling) ==
  /\ Ready
  /\ Anomalies(FALSE, TRUE, IF spelling = "neutral" THEN 1 ELSE 0)
  /\ \E p \in pipes :
       /\ p.pid = pid /\ p.pc = "spelling" /\ p.phase = "call"
       /\ queue' = storeResults(queue, p, spelling)
       /\ finishPipeline(p, timers)
  /\ Commit(TRUE)
  /\ UNCHANGED <<isProcessing, processingRef, nextId, controls, lim, call>>

\* a rejection of the last permitted attempt raised with no wait before it
remoteThrowsRaisesAtOnce(pid, err) ==
  /\ Ready
  /\ faults < lim.faults
  /\ faults' = faults + 1
  /\ \E p \in pipes :
       /\ p.pid = pid /\ p.phase = "call"
       /\ IF p.attempt + 1 < RetriesOf(p.pc)
          THEN /\ pipes' = ReplacePipe(p, catchError(p, err))
               /\ timers' = Append(timers, DelayTimer(pid, waitTime(err, p.attempt)))
               /\ UNCHANGED <<queue, effect>>
          ELSE /\ queue' = storeError(queue, p, err)
               /\ finishPipeline(p, timers)
               /\ Commit(TRUE)
  /\ UNCHANGED <<isProcessing, processingRef, nextId, controls, lim, call>>

\* the remote call of the current attempt rejects (or its response is unusable)
remoteThrows(pid, err) ==
  /\ Ready
  /\ faults < lim.faults
  /\ faults' = faults + 1
  /\ \E p \in pipes :
       /\ p.pid = pid /\ p.phase = "call"
       /\ pipes' = ReplacePipe(p, catchError(p, err))
       /\ timers' = Append(timers, DelayTimer(pid, waitTime(err, p.attempt)))
  /\ UNCHANGED <<queue, isProcessing, processingRef, effect, nextId, controls, lim, call>>

\* a delay of a pipeline ends: the pause between two lookups, or the wait of
\* runWithRetry after a failed attempt
delayExpires(k, keyOk) ==
  /\ Ready
  /\ TimerMayFire(timers, k)
  /\ timers[k].kind = "delay"
  /\ LET p == PipeOf(timers[k].pid)
         rest == RemoveAt(timers, k)
     IN /\ KeyFault(p.pc = "pause" \/ p.attempt + 1 < RetriesOf(p.pc), keyOk)
        /\ IF p.pc = "pause"
           THEN LET np == BeginStep(p, NextStep(p), keyOk)
                IN /\ pipes' = ReplacePipe(p, np)
                   /\ timers' = InvokeTimers(rest, np, keyOk)
                   /\ UNCHANGED <<queue, effect>>
           ELSE IF p.attempt + 1 < RetriesOf(p.pc)
           THEN LET np == Invoke([p EXCEPT !.attempt = @ + 1], keyOk)
                IN /\ pipes' = ReplacePipe(p, np)
                   /\ timers' = InvokeTimers(rest, np, keyOk)
                   /\ UNCHANGED <<queue, effect>>
           ELSE /\ queue' = storeError(queue, p, p.lastError)
                /\ finishPipeline(p, rest)
                /\ Commit(TRUE)
  /\ UNCHANGED <<isProcessing, processingRef, nextId, controls, lim, call>>

Next ==
  \/ \E k \in 1..lim.items : handleImagesSelected(k)
  \/ \E id \in 1..lim.items : removeQueueItem(id)
  \/ cancelAllPending
  \/ clearQueue
  \/ forceProcessQueue
  \/ \E id \in 1..lim.items, keyOk \in BOOLEAN : processSpecificItem(id, keyOk)
  \/ \E keyOk \in BOOLEAN : runEffect(keyOk)
  \/ \E k \in DOMAIN timers, keyOk \in BOOLEAN : forceTimerFires(k, keyOk)
  \/ \E k \in DOMAIN timers : cooldownExpires(k)
  \/ \E k \in DOMAIN timers, keyOk \in BOOLEAN : delayExpires(k, keyOk)
  \/ \E p \in pipes, n \in 0..lim.products, keyOk \in BOOLEAN : extractReturns(p.pid, n, keyOk)
  \/ \E p \in pipes, parses \in BOOLEAN, keyOk \in BOOLEAN : lookupReturns(p.pid, parses, keyOk)
  \/ \E p \in pipes, spelling \in {"neutral", "errors"} : spellingReturns(p.pid, spelling)
  \/ \E p \in pipes, err \in lim.errors : remoteThrows(p.pid, err)

Spec == Init /\ [][Next]_vars

SpecPipe == InitPipe /\ [][Next]_vars

\* the scheduler without the jump-to-front control
NextNoJump ==
  \/ \E k \in 1..lim.items : handleImagesSelected(k)
  \/ \E id \in 1..lim.items : removeQueueItem(id)
  \/ cancelAllPending
  \/ clearQueue
  \/ forceProcessQueue
  \/ \E keyOk \in BOOLEAN : runEffect(keyOk)
  \/ \E k \in DOMAIN timers, keyOk \in BOOLEAN : forceTimerFires(k, keyOk)
  \/ \E k \in DOMAIN timers : cooldownExpires(k)
  \/ \E k \in DOMAIN timers, keyOk \in BOOLEAN : delayExpires(k, keyOk)
  \/ \E p \in pipes, n \in 0..lim.products, keyOk \in BOOLEAN : extractReturns(p.pid, n, keyOk)
  \/ \E p \in pipes, parses \in BOOLEAN, keyOk \in BOOLEAN : lookupReturns(p.pid, parses, keyOk)
  \/ \E p \in pipes, spelling \in {"neutral", "errors"} : spellingReturns(p.pid, spelling)
  \/ \E p \in pipes, err \in lim.errors : remoteThrows(p.pid, err)

SpecNoJump == Init /\ [][NextNoJump]_vars

SpecCtl == InitCtl /\ [][Next]_vars

\* --------------------------------- validateSkuWithWeb: the returned match
\* the scheduler at rest, for the specifications that examine one function
AtRest ==
  Start([items |-> 0, controls |-> 0, faults |-> 0, products |-> 0, errors |-> {}])

\* sku.replace(/-/g, '')
cleanSku(sku) == LET notHyphen(c) == c # "-" IN SelectSeq(sku, notHyphen)

\* a field of the parsed response that may be missing
Absent == [present |-> FALSE, text |-> <<>>]
Text(t) == [present |-> TRUE, text |-> t]

\* data.title && (data.title.includes(sku) || data.title.includes(cleanSku)):
\* a missing or empty field is falsy
skuIn(field, sku) ==
  /\ field.present
  /\ field.text # <<>>
  /\ (Includes(field.text, sku) \/ Includes(field.text, cleanSku(sku)))

validateSkuWithWebTitleOnly(sku, parses, data) ==
  IF ~parses THEN [found |-> "false"]
  ELSE [found |-> IF skuIn(data.title, sku) THEN "true" ELSE data.found]

\* what validateSkuWithWeb returns for the response text of the provider:
\* parses says whether JSON.parse accepts it, data is the parsed object
validateSkuWithWeb(sku, parses, data) ==
  IF ~parses THEN [found |-> "false"]
  ELSE [found |-> IF skuIn(data.title, sku) \/ skuIn(data.url, sku)
                  THEN "true" ELSE data.found]

\* the codes queried and the titles and URLs of the responses examined
LookupSkus == { <<>>, <<"1","2","3">>, <<"1","2","-","3">>, <<"A","-","1">> }
LookupTitles ==
  { Absent, Text(<<>>), Text(<<"X"," ","1","2","3">>),
    Text(<<"1","2","-","3"," ","Y">>), Text(<<"a","1">>) }
LookupUrls ==
  { Absent, Text(<<>>), Text(<<"/","p","/","1","2","3">>), Text(<<"/","A","1","/">>) }
\* found of the provider: a JSON boolean, or missing
FoundValues == {"true", "false", "undefined"}

LookupInputs ==
  { [sku |-> k, parses |-> ps, data |-> [found |-> f, title |-> t, url |-> u]] :
      k \in LookupSkus, ps \in BOOLEAN, f \in FoundValues,
      t \in LookupTitles, u \in LookupUrls }

InitLookup ==
  /\ AtRest
  /\ call \in { [arg |-> a, done |-> FALSE, ret |-> <<>>] : a \in LookupInputs }

validateSkuWithWebReturns ==
  /\ ~call.done
  /\ call' = [call EXCEPT !.done = TRUE,
                          !.ret = validateSkuWithWeb(call.arg.sku, call.arg.parses,
                                                     call.arg.data)]
  /\ UNCHANGED sched

SpecLookup == InitLookup /\ [][validateSkuWithWebReturns]_vars

\* ------------------------------------------- numbers of the result card
\* A price is an IEEE 754 double. A finite double that is not negative is
\* held as the count of units of 2^-UnitExp it equals, written in binary with
\* the lowest bit first and no leading zero bit (zero is the empty sequence).
\* Every double from 2^(SigBits - 2 - UnitExp) up is a whole count of units.
UnitExp == 64
SigBits == 53

RECURSIVE Bits(_)
Bits(n) == IF n = 0 THEN <<>> ELSE <<n % 2>> \o Bits(n \div 2)

\* b without its leading zero bits
Norm(b) ==
  LET ones == {i \in DOMAIN b : b[i] = 1}
  IN IF ones = {} THEN <<>>
     ELSE SubSeq(b, 1, CHOOSE i \in ones : \A j \in ones : j <= i)

BitAt(b, i) == IF i \in DOMAIN b THEN b[i] ELSE 0

ShiftLeft(b, k) == IF b = <<>> THEN b ELSE [i \in 1..k |-> 0] \o b

\* the number made of the eight bits of b from bit i on
Byte(b, i) ==
  BitAt(b, i) + 2 * BitAt(b, i + 1) + 4 * BitAt(b, i + 2) + 8 * BitAt(b, i + 3)
  + 16 * BitAt(b, i + 4) + 32 * BitAt(b, i + 5) + 64 * BitAt(b, i + 6)
  + 128 * BitAt(b, i + 7)

\* remainder, on division by d, of the number made of bits i and above of b
RECURSIVE RemFrom(_, _, _)
RemFrom(b, i, d) ==
  IF i > Len(b) THEN 0 ELSE (256 * RemFrom(b, i + 8, d) + Byte(b, i)) % d

DivBy(b, d) == Norm([i \in 1..Len(b) |-> (2 * RemFrom(b, i + 1, d) + b[i]) \div d])

\* a < b for sequences of bits of equal length
LessBits(a, b) ==
  \E i \in 1..Len(a) : a[i] < b[i] /\ \A j \in (i + 1)..Len(a) : a[j] = b[j]

Less(a, b) == Len(a) < Len(b) \/ (Len(a) = Len(b) /\ LessBits(a, b))

\* the borrow that bit i gives to the bits below it when b is taken from a
Borrow(a, b, i) ==
  IF LessBits(SubSeq(a, 1, i - 1), [j \in 1..(i - 1) |-> BitAt(b, j)]) THEN 1 ELSE 0

\* a - b for b not above a
Minus(a, b) ==
  Norm([i \in 1..Len(a) |-> (a[i] - BitAt(b, i) - Borrow(a, b, i) + 2) % 2])

PlusOne(b) ==
  LET carry(i) == \A j \in 1..(i - 1) : b[j] = 1
  IN [i \in 1..(IF carry(Len(b) + 1) THEN Len(b) + 1 ELSE Len(b)) |->
        (BitAt(b, i) + (IF carry(i) THEN 1 ELSE 0)) % 2]

\* round to nearest, ties to even: b to SigBits significant bits; inexact
\* says that the exact value lies above b by less than one unit
RoundToDouble(b, inexact) ==
  IF Len(b) <= SigBits THEN b
  ELSE LET s == Len(b) - SigBits
           kept == SubSeq(b, s + 1, Len(b))
           below == inexact \/ \E i \in 1..(s - 1) : b[i] = 1
           up == b[s] = 1 /\ (below \/ kept[1] = 1)
       IN ShiftLeft(IF up THEN PlusOne(kept) ELSE kept, s)

\* the double nearest to n / d
Nearest(n, d) ==
  LET x == ShiftLeft(Bits(n), UnitExp)
  IN RoundToDouble(DivBy(x, d), RemFrom(x, 1, d) # 0)

NaN == [nan |-> TRUE, bits |-> <<>>]
Num(b) == [nan |-> FALSE, bits |-> b]

\* Math.abs(x - y) of two doubles that are not negative
AbsDiff(x, y) ==
  IF x.nan \/ y.nan THEN NaN
  ELSE Num(RoundToDouble(IF Less(x.bits, y.bits) THEN Minus(y.bits, x.bits)
                         ELSE Minus(x.bits, y.bits), FALSE))

\* x > y; false when either is NaN
Greater(x, y) == ~x.nan /\ ~y.nan /\ Less(y.bits, x.bits)

\* -------------------------------------------------- the result card
DigitChars == <<"0","1","2","3","4","5","6","7","8","9">>
IsDigit(c) == \E i \in 1..10 : DigitChars[i] = c
DigitVal(c) == (CHOOSE i \in 1..10 : DigitChars[i] = c) - 1

\* priceStr.replace(/[^0-9.]/g, '')
stripPrice(s) == LET kept(c) == IsDigit(c) \/ c = "." IN SelectSeq(s, kept)

\* how many digits follow one another in s from position i on
DigitRun(s, i) ==
  CHOOSE n \in 0..Len(s) :
    /\ \A j \in i..(i + n - 1) : j <= Len(s) /\ IsDigit(s[j])
    /\ (i + n > Len(s) \/ ~IsDigit(s[i + n]))

RECURSIVE ToNat(_)
ToNat(ds) ==
  IF ds = <<>> THEN 0
  ELSE 10 * ToNat(SubSeq(ds, 1, Len(ds) - 1)) + DigitVal(ds[Len(ds)])

RECURSIVE Pow10(_)
Pow10(k) == IF k = 0 THEN 1 ELSE 10 * Pow10(k - 1)

\* the decimal literal that parseFloat reads at the start of s: digits, then
\* a point and digits; its value is n / 10^scale, and ok is false when s
\* starts with no literal
LiteralOf(s) ==
  LET ni == DigitRun(s, 1)
      nf == IF ni < Len(s) /\ s[ni + 1] = "." THEN DigitRun(s, ni + 2) ELSE 0
  IN [ok |-> ni + nf > 0,
      n |-> ToNat(SubSeq(s, 1, ni) \o SubSeq(s, ni + 2, ni + 1 + nf)),
      scale |-> nf]

parseFloat(s) ==
  LET l == LiteralOf(s)
  IN IF l.ok THEN Num(Nearest(l.n, Pow10(l.scale))) ELSE NaN

\* parsePrice of the card: a missing or empty price string counts as 0
parsePrice(price) ==
  IF ~price.present \/ price.text = <<>> THEN Num(<<>>)
  ELSE parseFloat(stripPrice(price.text))

\* the visual price: missing, or a number of dollars with two decimals, which
\* JSON.parse turns into the nearest double
NoPrice == [present |-> FALSE, cents |-> 0]
Price(c) == [present |-> TRUE, cents |-> c]

\* priceOnArt || 0
artPriceVal(priceOnArt) ==
  IF priceOnArt.present THEN Num(Nearest(priceOnArt.cents, 100)) ELSE Num(<<>>)

\* the tolerance 0.05 as a double
Tolerance == Num(Nearest(5, 100))

hasDiscountAnyPrevious(details) ==
  details.regularPrice.present /\ details.regularPrice.text # <<>>

\* details.regularPrice && details.regularPrice !== details.price
hasDiscount(details) ==
  /\ details.regularPrice.present
  /\ details.regularPrice.text # <<>>
  /\ details.regularPrice # details.price

\* isMatchFound && artPriceVal > 0 && Math.abs(webPriceVal - artPriceVal) > 0.05
isPriceMismatch(item) ==
  /\ item.details.found
  /\ Greater(artPriceVal(item.priceOnArt), Num(<<>>))
  /\ Greater(AbsDiff(parsePrice(item.details.price), artPriceVal(item.priceOnArt)),
             Tolerance)

\* PriceIntegrityAlert: is the item listed among the mismatches
alertMismatch(item) ==
  /\ item.priceOnArt.present /\ item.details.found
  /\ Greater(AbsDiff(IF item.details.price.present /\ item.details.price.text # <<>>
                     THEN parseFloat(stripPrice(item.details.price.text))
                     ELSE parseFloat(<<"0">>),
                     artPriceVal(item.priceOnArt)),
             Tolerance)

ProductCard(item) ==
  [isPriceMismatch |-> isPriceMismatch(item),
   hasDiscount |-> hasDiscount(item.details),
   alertMismatch |-> alertMismatch(item)]

\* the price strings and visual prices (in cents) of the cards examined
CardPrices ==
  { Absent,
    Text(<<"$","1",".","0","5">>), Text(<<"$","1",".","0","0">>),
    Text(<<"1",".","0","4">>), Text(<<"N","/","A">>),
    Text(<<"$","1",",","2","9","9",".","9","9">>) }
CardRegularPrices ==
  { Absent, Text(<<>>), Text(<<"$","1",".","0","5">>), Text(<<"$","1",".","1","0">>) }
CardArtPrices == { NoPrice, Price(0), Price(100), Price(105), Price(110), Price(129999) }

CardItems ==
  { [priceOnArt |-> a, details |-> [found |-> f, price |-> pr, regularPrice |-> rp]] :
      a \in CardArtPrices, f \in BOOLEAN, pr \in CardPrices, rp \in CardRegularPrices }

InitCard ==
  /\ AtRest
  /\ call \in { [arg |-> a, done |-> FALSE, ret |-> <<>>] : a \in CardItems }

renderCard ==
  /\ ~call.done
  /\ call' = [call EXCEPT !.done = TRUE, !.ret = ProductCard(call.arg)]
  /\ UNCHANGED sched

SpecCard == InitCard /\ [][renderCard]_vars

\* ------------------------------ extractSkuFromImage: the products returned
\* products in one response of the provider
MaxRaw == 3

IsSpace(c) == c \in {" ", "\t", "\n"}

\* String.prototype.trim
trim(s) ==
  LET inked == {i \in DOMAIN s : ~IsSpace(s[i])}
  IN IF inked = {} THEN <<>>
     ELSE SubSeq(s, CHOOSE i \in inked : \A j \in inked : i <= j,
                    CHOOSE i \in inked : \A j \in inked : j <= i)

uniqueProductsKeepLast(rawProducts) ==
  LET at == [i \in DOMAIN rawProducts |-> [i |-> i, p |-> rawProducts[i]]]
      last(x) == \A j \in DOMAIN rawProducts :
                   j > x.i => trim(rawProducts[j].sku) # trim(x.p.sku)
      sel == SelectSeq(at, last)
  IN [k \in DOMAIN sel |->
        [sku |-> trim(sel[k].p.sku), priceOnArt |-> sel[k].p.priceOnArt]]

\* the loop over rawProducts, with seenSkus and uniqueProducts so far
RECURSIVE dedupLoop(_, _, _)
dedupLoop(rest, seenSkus, unique) ==
  IF rest = <<>> THEN unique
  ELSE LET p == Head(rest)
           trimmed == trim(p.sku)
       IN IF trimmed \in seenSkus
          THEN dedupLoop(Tail(rest), seenSkus, unique)
          ELSE dedupLoop(Tail(rest), seenSkus \cup {trimmed},
                         Append(unique, [sku |-> trimmed, priceOnArt |-> p.priceOnArt]))

uniqueProducts(rawProducts) == dedupLoop(rawProducts, {}, <<>>)

\* the products a response can list
RawSkus == { <<"A","1">>, <<" ","A","1">>, <<"a","1">>, <<"B"," ">> }
RawProducts == { [sku |-> k, priceOnArt |-> a] : k \in RawSkus, a \in {Price(100), Price(105)} }

RECURSIVE SeqsUpTo(_, _)
SeqsUpTo(S, n) ==
  IF n = 0 THEN {<<>>}
  ELSE LET shorter == SeqsUpTo(S, n - 1)
       IN shorter \cup {Append(q, x) : q \in shorter, x \in S}

InitDedup ==
  /\ AtRest
  /\ call \in { [arg |-> a, done |-> FALSE, ret |-> <<>>] : a \in SeqsUpTo(RawProducts, MaxRaw) }

extractSkuFromImageReturns ==
  /\ ~call.done
  /\ call' = [call EXCEPT !.done = TRUE, !.ret = uniqueProducts(call.arg)]
  /\ UNCHANGED sched

SpecDedup == InitDedup /\ [][extractSkuFromImageReturns]_vars

\* ------------------------------------------------------- the API key
UndefinedText == <<"u","n","d","e","f","i","n","e","d">>

getAiClientLocalFirst(envKey, localKey) ==
  IF localKey.present /\ localKey.text # <<>>
  THEN [apiKey |-> localKey.text, error |-> NoError]
  ELSE IF envKey.present /\ Len(envKey.text) > 0 /\ envKey.text # UndefinedText
  THEN [apiKey |-> envKey.text, error |-> NoError]
  ELSE [apiKey |-> <<>>, error |-> ErrKeyMissing]

\* the key the client is built with, or the error thrown; envKey is
\* process.env.API_KEY, localKey is localStorage's art_inspector_api_key
getAiClient(envKey, localKey) ==
  IF envKey.present /\ Len(envKey.text) > 0 /\ envKey.text # UndefinedText
  THEN [apiKey |-> envKey.text, error |-> NoError]
  ELSE IF localKey.present /\ localKey.text # <<>>
  THEN [apiKey |-> localKey.text, error |-> NoError]
  ELSE [apiKey |-> <<>>, error |-> ErrKeyMissing]

hasValidApiKey(envKey, localKey) == getAiClient(envKey, localKey).error = NoError

\* the value localStorage holds after saveManualApiKey(key)
saveManualApiKey(key) == Text(trim(key))

\* the values of process.env.API_KEY a build can hold
EnvKeys ==
  { Absent, Text(<<>>), Text(UndefinedText), Text(<<"e","1">>), Text(<<"e","2">>),
    Text(<<"E","1">>), Text(<<"k","1">>), Text(<<"k","2">>) }

\* what the user types into the key dialog
KeyInputs ==
  { <<>>, <<" ">>, UndefinedText, <<"k","1">>, <<" ","k","1"," ">>, <<"k","2">>,
    <<"K","1">>, <<"k","3","\n">>, <<"k"," ","4">>, <<"e","1">> }

InitKey ==
  /\ AtRest
  /\ call \in { [arg |-> [envKey |-> e, localKey |-> Absent], done |-> FALSE, ret |-> <<>>] :
                  e \in EnvKeys }

\* the key dialog is confirmed: an input that trims to nothing is refused,
\* otherwise the key is stored and the page reloads
handleSaveKey(input) ==
  /\ trim(input) # <<>>
  /\ call' = [arg |-> [call.arg EXCEPT !.localKey = saveManualApiKey(input)],
              done |-> FALSE, ret |-> <<>>]
  /\ UNCHANGED sched

\* the key is looked up: by getAiClient and by hasValidApiKey
keyLookup ==
  /\ ~call.done
  /\ call' = [call EXCEPT
                !.done = TRUE,
                !.ret = [client |-> getAiClient(call.arg.envKey, call.arg.localKey),
                         hasValidApiKey |-> hasValidApiKey(call.arg.envKey,
                                                          call.arg.localKey)]]
  /\ UNCHANGED sched

NextKey ==
  \/ \E input \in KeyInputs : handleSaveKey(input)
  \/ keyLookup

SpecKey == InitKey /\ [][NextKey]_vars

\* ------------------------------------- the message of a failed item
\* messages longer than, and exactly as long as, the part that is shown
LongText == <<"U","n","e","x","p","e","c","t","e","d"," ","n","o","n","-","w","h","i","t","e","s","p","a","c","e"," ","c","h","a","r","a","c","t","e","r"," ","a","f","t","e","r"," ","J","S","O","N"," ","a","t"," ","p","o","s","i","t","i","o","n"," ","1","2">>
FiftyText == <<"R","e","q","u","e","s","t"," ","c","o","n","t","a","i","n","s"," ","a","n"," ","i","n","v","a","l","i","d"," ","a","r","g","u","m","e","n","t"," ","f","o","r"," ","t","h","e"," ","m","o","d","e","l">>
QuotaText == <<"Q","u","o","t","a"," ","e","x","c","e","e","d","e","d"," ","f","o","r"," ","m","e","t","r","i","c">>
LowerQuotaText == <<"q","u","o","t","a"," ","e","x","c","e","e","d","e","d">>

\* the messages and the status fields (0: none) of the errors examined
CatchMessages ==
  { <<>>, KeyMissingText, RateText, OverText, NoResponseText, QuotaText,
    LowerQuotaText, LongText, FiftyText }
CatchStatuses == {0, 400, 403, 429, 500, 503}

InitCatch ==
  /\ AtRest
  /\ call \in { [arg |-> [message |-> m, status |-> st], done |-> FALSE, ret |-> <<>>] :
                  m \in CatchMessages, st \in CatchStatuses }

\* the catch block of processItemAtIndex computes msg
catchComputesMsg ==
  /\ ~call.done
  /\ call' = [call EXCEPT !.done = TRUE, !.ret = errorMsgFor(call.arg)]
  /\ UNCHANGED sched

SpecCatch == InitCatch /\ [][catchComputesMsg]_vars

\* ------------------------------------------------------ observed notions
InFlightItems == {i \in DOMAIN queue : InFlight(queue[i].status)}

\* the pipeline is in the wait that follows the last attempt of its operation:
\* it issues no further remote call
FinalWait(p) ==
  p.phase = "wait" /\ p.pc # "pause" /\ p.attempt + 1 >= RetriesOf(p.pc)

\* pipeline p of this state has, in the next state, a remote call in flight
\* that it had not in this state
IssuesCall(np) ==
  /\ np \in pipes'
  /\ np.phase = "call"
  /\ np \notin pipes

\* pipeline p ends in this step (its finally block runs)
Finishes(p) == p \in pipes /\ \A np \in pipes' : np.pid # p.pid

\* an item changes from status a to status b in this step
Moves(a, b) ==
  \E i \in DOMAIN queue, j \in DOMAIN queue' :
    queue[i].id = queue'[j].id /\ queue[i].status = a /\ queue'[j].status = b

CooldownRunning == \E k \in DOMAIN timers : timers[k].kind = "cool"

\* a step of the automatic scheduling: the effect, or the delayed
\* processNextItem of forceProcessQueue
AutoStep ==
  \/ \E keyOk \in BOOLEAN : runEffect(keyOk)
  \/ \E k \in DOMAIN timers, keyOk \in BOOLEAN : forceTimerFires(k, keyOk)

\* ------------------------------------------------------------------ claims

\* C1: in every reachable state at most one queue item has status ANALYZING
\* or VALIDATING.
C1_SingleWorker == Cardinality(InFlightItems) <= 1

\* C2: no remote call is issued for an item while a pipeline started for a
\* different item (also one removed from the queue) still has remote calls to
\* make or in flight.
C2_Sequential ==
  [][\A np \in pipes' :
       IssuesCall(np) =>
         \A q \in pipes : (q.pid # np.pid /\ ~FinalWait(q)) => q.item = np.item]_vars

\* C4: when the automatic scheduling moves an item from PENDING to ANALYZING,
\* no item before it in the queue is PENDING.
C4_FirstPendingStarted ==
  [][AutoStep =>
       \A i \in DOMAIN queue :
         (/\ queue[i].status = "PENDING"
          /\ i \in DOMAIN queue'
          /\ queue'[i].id = queue[i].id
          /\ queue'[i].status = "ANALYZING")
         => \A j \in 1..(i - 1) : queue[j].status # "PENDING"]_vars

C4_Witness ==
  /\ controls = 0
  /\ \E i, j \in DOMAIN queue :
       i < j /\ queue[i].status = "ANALYZING" /\ queue[j].status = "PENDING"

\* C5: without processSpecificItem, items reach a terminal status in queue
\* order: no item is COMPLETED or ERROR while an item before it is not.
C5_FifoCompletion ==
  \A i, j \in DOMAIN queue :
    (i < j /\ Terminal(queue[j].status)) => Terminal(queue[i].status)

\* C7: the only status changes of an item are PENDING->ANALYZING,
\* ANALYZING->VALIDATING, VALIDATING->COMPLETED, ANALYZING->ERROR and
\* VALIDATING->ERROR.
AllowedMoves ==
  { <<"PENDING", "ANALYZING">>, <<"ANALYZING", "VALIDATING">>,
    <<"VALIDATING", "COMPLETED">>, <<"ANALYZING", "ERROR">>,
    <<"VALIDATING", "ERROR">> }

C7_OnlyAllowedMoves ==
  [][\A a, b \in Statuses : (a # b /\ Moves(a, b)) => <<a, b>> \in AllowedMoves]_vars

\* C10: while the cooldown of a finished pipeline has not expired, no item
\* moves from PENDING to ANALYZING.
C10_CooldownRespected ==
  [][CooldownRunning => ~Moves("PENDING", "ANALYZING")]_vars

C1_TwoInFlight == Cardinality(InFlightItems) >= 2

\* C3: with every remote call eventually answered and every timer eventually
\* firing, an item in the queue is eventually COMPLETED, ERROR or removed, and
\* a held lock is eventually released.
Queued(id) == \E i \in DOMAIN queue : queue[i].id = id

Settled(id) == \E i \in DOMAIN queue : queue[i].id = id /\ Terminal(queue[i].status)

C3_EveryItemSettles ==
  /\ \A id \in 1..LiveItems : [](Queued(id) => <>(Settled(id) \/ ~Queued(id)))
  /\ [](processingRef => <>(~processingRef))

C3_Witness ==
  /\ Len(queue) = LiveItems
  /\ \A i \in DOMAIN queue : Terminal(queue[i].status)
  /\ ~processingRef
  /\ timers = <<>>

C8_NoSkuMessage ==
  [][\A p \in pipes :
       (p.n = 0 /\ p.pc = "spelling" /\ Finishes(p)) =>
         \A j \in DOMAIN queue' :
           queue'[j].id = p.item =>
             queue'[j].status = "ERROR" /\ queue'[j].errorMsg = MsgNoSku]_vars

C11_SpellingNeverFailsItem ==
  [][\A p \in pipes :
       (p.pc = "spelling" /\ p.n >= 1 /\ Finishes(p)) =>
         \A j \in DOMAIN queue' :
           queue'[j].id = p.item =>
             /\ queue'[j].status = "COMPLETED"
             /\ queue'[j].results = p.res
             /\ FinalWait(p) => queue'[j].spellingResult = "neutral"]_vars

\* C12: no failure of a catalog lookup ends the pipeline: a pipeline never
\* finishes (with the item ERROR) in its lookup step.
C12_LookupNeverFailsItem ==
  [][\A p \in pipes : p.pc = "lookup" => ~Finishes(p)]_vars

\* C13: after API_KEY_MISSING an operation is not retried: no pipeline sits in
\* a backoff wait of runWithRetry with that error, and none starts a further
\* attempt after it.
C13_KeyMissingNotRetried ==
  \A p \in pipes :
    p.lastError = ErrKeyMissing => (p.phase # "wait" /\ p.attempt = 0)

\* C14: results is empty while an item is PENDING or ANALYZING and non-empty
\* while it is VALIDATING or COMPLETED.
C14_ResultsByStatus ==
  \A i \in DOMAIN queue :
    /\ queue[i].status \in {"PENDING", "ANALYZING"} => queue[i].results = <<>>
    /\ queue[i].status \in {"VALIDATING", "COMPLETED"} => queue[i].results # <<>>

\* C15: cancelAllPending removes exactly the PENDING items: every other item
\* stays in the queue, in its original relative order.
C15_CancelRemovesOnlyPending ==
  [][cancelAllPending =>
       LET notPending(i) == i.status # "PENDING"
       IN queue' = SelectSeq(queue, notPending)]_vars

\* C16: the item of a running pipeline that has been removed from the queue
\* never reappears, and no step of that pipeline changes the queue.
Orphan(p) == p \in pipes /\ ~Queued(p.item)

C16_RemovedItemStaysOut ==
  [][\A p \in pipes :
       Orphan(p) =>
         /\ \A j \in DOMAIN queue' : queue'[j].id # p.item
         /\ p \notin pipes' => queue' = queue]_vars

\* the pipeline of a removed item has gone on to a later remote call
C16_Witness ==
  \E p \in pipes :
    Orphan(p) /\ p.phase = "call" /\ p.pc \in {"lookup", "spelling"}

\* C17: no pipeline is started, and so no remote call issued, for an item
\* that is no longer in the queue.
Starts(np) == np \in pipes' /\ \A p \in pipes : p.pid # np.pid

C17_NoStartAfterRemoval ==
  [][\A np \in pipes' : Starts(np) => Queued(np.item)]_vars

\* C18: processSpecificItem changes nothing while an item is in flight or a
\* pipeline is running; when it takes effect, the named item is ANALYZING.
C18_JumpOnlyWhenIdle ==
  [][\A id \in 1..lim.items, keyOk \in BOOLEAN :
       processSpecificItem(id, keyOk) =>
         /\ (InFlightItems # {} \/ pipes # {}) =>
              UNCHANGED <<queue, pipes, timers, isProcessing, processingRef>>
         /\ queue' # queue =>
              \E j \in DOMAIN queue' :
                queue'[j].id = id /\ queue'[j].status = "ANALYZING"]_vars

\* C19: runWithRetry invokes the operation at most `retries` times, and after
\* an invocation that succeeds the pipeline leaves that operation: it is not
\* invoked again.
C19_AttemptsBounded ==
  /\ [](\A p \in pipes :
          /\ p.pc = "extract" => p.attempt < ExtractRetries
          /\ p.pc = "lookup" => p.attempt < ValidateRetries
          /\ p.pc = "spelling" => p.attempt < SpellingRetries)
  /\ [][\A p \in pipes, np \in pipes' :
          (np.pid = p.pid /\ p.phase = "call" /\ np # p) =>
            \/ np = [p EXCEPT !.phase = "wait", !.lastError = np.lastError]
            \/ np.pc # p.pc]_vars

\* the last permitted invocation of the extraction is in flight
C19_Witness ==
  \E p \in pipes :
    p.pc = "extract" /\ p.phase = "call" /\ p.attempt = ExtractRetries - 1

\* the retry waits that are running: <<error, number of the failed attempt
\* counted from 1, milliseconds>>
RetryWaits ==
  { <<PipeOf(timers[k].pid).lastError, PipeOf(timers[k].pid).attempt + 1, timers[k].ms>> :
      k \in { j \in DOMAIN timers :
                timers[j].kind = "delay" /\ PipeOf(timers[j].pid).pc # "pause" } }

\* C20 as stated: the wait after the i-th failed attempt is 2000*i ms for a
\* rate-limit signal, 4000*i ms for an overload signal, 1000 ms otherwise.
C20_WaitTimes ==
  \A w \in RetryWaits :
    /\ isRateLimit(w[1]) => w[3] = 2000 * w[2]
    /\ isOverloaded(w[1]) => w[3] = 4000 * w[2]
    /\ ~(isRateLimit(w[1]) \/ isOverloaded(w[1])) => w[3] = 1000

\* C20 amended: an overload signal takes precedence: 4000*i ms for an overload
\* signal, 2000*i ms for a rate-limit signal that is no overload signal,
\* 1000 ms otherwise.
C20_WaitTimesOverloadFirst ==
  \A w \in RetryWaits :
    /\ isOverloaded(w[1]) => w[3] = 4000 * w[2]
    /\ (isRateLimit(w[1]) /\ ~isOverloaded(w[1])) => w[3] = 2000 * w[2]
    /\ ~(isRateLimit(w[1]) \/ isOverloaded(w[1])) => w[3] = 1000

\* the second wait after two 429 rejections, and a wait after a rejection
\* that is both signals, are reached
C20_Witness ==
  /\ \E w \in RetryWaits : w[1] \in {ErrRate, ErrBoth} /\ w[2] = 2

\* C21: when every attempt of a runWithRetry call has failed, the error of
\* the final attempt is the one raised to the caller: lastError is the error
\* of the attempt that failed last, the pipeline takes no further step of its
\* own (no value is returned) and the item is ERROR with the message of that
\* error.
C21_LastErrorRaised ==
  [][/\ \A p \in pipes, err \in lim.errors :
          remoteThrows(p.pid, err) =>
            \E np \in pipes' : np.pid = p.pid /\ np.lastError = err
     /\ \A np \in pipes' :
          (/\ np \notin pipes
           /\ np.phase = "wait" /\ np.pc # "pause"
           /\ ~\E p \in pipes, err \in lim.errors : remoteThrows(p.pid, err))
          => np.lastError = ErrKeyMissing
     /\ \A p \in pipes :
          (FinalWait(p) /\ p \notin pipes') =>
            /\ Finishes(p)
            /\ \A j \in DOMAIN queue' :
                 queue'[j].id = p.item =>
                   /\ queue'[j].status = "ERROR"
                   /\ queue'[j].errorMsg = errorMsgFor(p.lastError)]_vars

\* three attempts of one operation have failed, the last one with the
\* overload rejection, and the item shows that rejection's message
C21_Witness ==
  /\ pipes = {}
  /\ faults = ExtractRetries
  /\ \E i \in DOMAIN queue :
       queue[i].status = "ERROR" /\ queue[i].errorMsg = Slice(OverText, MsgSliceLen)

\* C22 as stated: the returned found is true whenever the parsed title or the
\* parsed URL contains the queried code, raw or with its hyphens removed,
\* whatever the provider's found was; when neither contains it, the returned
\* found is the provider's.
C22_ConfirmationOverride ==
  call.done /\ call.arg.parses =>
    LET a == call.arg
        contains(f) ==
          f.present /\ (Includes(f.text, a.sku) \/ Includes(f.text, cleanSku(a.sku)))
    IN IF contains(a.data.title) \/ contains(a.data.url)
       THEN call.ret.found = "true"
       ELSE call.ret.found = a.data.found

\* C22 amended: the override needs a non-empty title or URL that contains the
\* code; otherwise the returned found is the provider's.
C22_OverrideOnNonEmptyText ==
  call.done /\ call.arg.parses =>
    LET a == call.arg
        contains(f) ==
          /\ f.present /\ f.text # <<>>
          /\ (Includes(f.text, a.sku) \/ Includes(f.text, cleanSku(a.sku)))
    IN IF contains(a.data.title) \/ contains(a.data.url)
       THEN call.ret.found = "true"
       ELSE call.ret.found = a.data.found

\* the provider said not found, only the URL holds the code, and only with
\* the hyphen removed: found is forced
C22_Witness ==
  /\ call.done /\ call.arg.parses
  /\ call.arg.sku = <<"1","2","-","3">>
  /\ call.arg.data.found = "false"
  /\ call.arg.data.title = Text(<<"a","1">>)
  /\ call.arg.data.url = Text(<<"/","p","/","1","2","3">>)
  /\ call.ret.found = "true"

\* C23: for a card whose catalog price string holds a number, isPriceMismatch
\* is true exactly when the match is found, the visual price is present and
\* above zero, and the catalog price and the visual price differ by more than
\* 5 cents; a difference of exactly 5 cents is no mismatch.
C23_MismatchIffOverFiveCents ==
  call.done =>
    LET item == call.arg
        l == LiteralOf(stripPrice(item.details.price.text))
        \* catalog price minus visual price, in thousandths
        d == l.n * Pow10(3 - l.scale) - 10 * item.priceOnArt.cents
    IN (item.details.price.present /\ l.ok)
       => (call.ret.isPriceMismatch <=>
             /\ item.details.found
             /\ item.priceOnArt.present /\ item.priceOnArt.cents > 0
             /\ (d > 50 \/ d < -50))

\* a found match at $1.05 against a visual price of 1.00 is flagged
C23_FiveCentsFlagged ==
  /\ call.done
  /\ call.arg.details.found
  /\ call.arg.details.price = Text(<<"$","1",".","0","5">>)
  /\ call.arg.priceOnArt = Price(100)
  /\ call.ret.isPriceMismatch

\* C24: missing data never gives a mismatch: with no visual price, with a
\* match that is not found, or with a found match without a current price,
\* neither the card nor the price alert flags the product.
C24_AbsenceNeverMismatch ==
  call.done =>
    LET item == call.arg
    IN (\/ ~item.priceOnArt.present
        \/ ~item.details.found
        \/ ~item.details.price.present)
       => (~call.ret.isPriceMismatch /\ ~call.ret.alertMismatch)

\* a found match without a current price is flagged against a visual price
C24_MissingPriceFlagged ==
  /\ call.done
  /\ call.arg.details.found
  /\ ~call.arg.details.price.present
  /\ call.arg.priceOnArt = Price(100)
  /\ call.ret.isPriceMismatch
  /\ call.ret.alertMismatch

\* C26: hasDiscount is true exactly when the match has a previous price (a
\* regularPrice that is not empty) and that price is not the current price.
C26_DiscountFlag ==
  call.done =>
    LET d == call.arg.details
    IN call.ret.hasDiscount <=>
         /\ d.regularPrice.present /\ d.regularPrice.text # <<>>
         /\ (~d.price.present \/ d.price.text # d.regularPrice.text)

\* a previous price equal to the current price: no discount
C26_Witness ==
  /\ call.done
  /\ call.arg.details.regularPrice = Text(<<"$","1",".","0","5">>)
  /\ call.arg.details.price = Text(<<"$","1",".","0","5">>)
  /\ ~call.ret.hasDiscount

\* C25: the products returned by the extraction hold no code twice, codes
\* compared trimmed and case-sensitively; every code of the response is kept
\* (also one that differs from another only in letter case); each kept
\* product is the first occurrence of its code and carries its price; the
\* kept products are in the order of their first occurrences.
C25_DedupFirstOccurrence ==
  call.done =>
    LET raw == call.arg
        kept == call.ret
        first(k) == CHOOSE i \in DOMAIN raw :
                      /\ trim(raw[i].sku) = kept[k].sku
                      /\ \A j \in 1..(i - 1) : trim(raw[j].sku) # kept[k].sku
    IN /\ \A k, l \in DOMAIN kept : k # l => kept[k].sku # kept[l].sku
       /\ \A i \in DOMAIN raw : \E k \in DOMAIN kept : kept[k].sku = trim(raw[i].sku)
       /\ \A k \in DOMAIN kept :
            /\ \E i \in DOMAIN raw : trim(raw[i].sku) = kept[k].sku
            /\ kept[k].priceOnArt = raw[first(k)].priceOnArt
       /\ \A k, l \in DOMAIN kept : k < l => first(k) < first(l)

\* a code listed twice with different spacing and prices, and once in lower
\* case: two products are kept, the first with the first price
C25_Witness ==
  /\ call.done
  /\ call.arg = << [sku |-> <<" ","A","1">>, priceOnArt |-> Price(105)],
                   [sku |-> <<"a","1">>, priceOnArt |-> Price(100)],
                   [sku |-> <<"A","1">>, priceOnArt |-> Price(100)] >>
  /\ call.ret = << [sku |-> <<"A","1">>, priceOnArt |-> Price(105)],
                   [sku |-> <<"a","1">>, priceOnArt |-> Price(100)] >>

\* C27: the extraction and a catalog lookup are attempted at most 3 times,
\* the spelling audit at most 2 times: no pipeline is in a later attempt, and
\* a pipeline that waits after its 3rd (for the audit its 2nd) failed attempt
\* makes no further attempt.
C27_RetryBudgets ==
  /\ [](\A p \in pipes :
          /\ p.pc \in {"extract", "lookup"} => p.attempt + 1 <= 3
          /\ p.pc = "spelling" => p.attempt + 1 <= 2)
  /\ [][\A p \in pipes :
          (/\ p.phase = "wait"
           /\ \/ p.pc \in {"extract", "lookup"} /\ p.attempt + 1 = 3
              \/ p.pc = "spelling" /\ p.attempt + 1 = 2)
          => \A np \in pipes' : np.pid = p.pid => np = p]_vars

\* the second attempt of the spelling audit has failed
C27_Witness ==
  \E p \in pipes :
    p.pc = "spelling" /\ p.phase = "wait" /\ p.attempt + 1 = 2 /\ p.n >= 1

\* C28: the lookup uses the environment key whenever that key is non-empty
\* and not the text 'undefined'; otherwise the stored key when there is one;
\* it throws API_KEY_MISSING exactly when neither is available; and
\* hasValidApiKey is true exactly when the lookup does not throw.
C28_KeyLookup ==
  call.done =>
    LET e == call.arg.envKey
        l == call.arg.localKey
        envOk == e.present /\ e.text # <<>> /\ e.text # UndefinedText
        got == call.ret.client
    IN /\ envOk => (got.error = NoError /\ got.apiKey = e.text)
       /\ (~envOk /\ l.present) => (got.error = NoError /\ got.apiKey = l.text)
       /\ got.error = ErrKeyMissing <=> (~envOk /\ ~l.present)
       /\ got.error \in {NoError, ErrKeyMissing}
       /\ call.ret.hasValidApiKey <=> got.error = NoError

\* the build holds the text 'undefined' as its key and a key is stored: the
\* stored key is used
C28_Witness ==
  /\ call.done
  /\ call.arg.envKey = Text(UndefinedText)
  /\ call.arg.localKey = Text(<<"k","1">>)
  /\ call.ret.client.apiKey = <<"k","1">>
  /\ call.ret.hasValidApiKey

\* C29: an item that is COMPLETED or ERROR keeps its status, results,
\* spellingResult and errorMsg for as long as it is in the queue.
C29_TerminalItemsFrozen ==
  [][\A i \in DOMAIN queue :
       Terminal(queue[i].status) =>
         \A j \in DOMAIN queue' :
           queue'[j].id = queue[i].id => queue'[j] = queue[i]]_vars

\* C30: the pipeline of an item is started at most once: no step starts a
\* pipeline for an item that is not PENDING in the queue (it has been started
\* before), or for which a pipeline is running.
C30_StartedOnce ==
  [][\A np \in pipes' :
       Starts(np) =>
         /\ \A p \in pipes : p.item # np.item
         /\ \A i \in DOMAIN queue : queue[i].id = np.item => queue[i].status = "PENDING"]_vars

\* an item is COMPLETED or ERROR while a pipeline started for it still runs
C29_PipelineOutlivesOutcome ==
  \E p \in pipes, i \in DOMAIN queue :
    queue[i].id = p.item /\ Terminal(queue[i].status)

\* two pipelines run for the same item
C30_TwoPipelinesOneItem ==
  \E p, q \in pipes : p.pid # q.pid /\ p.item = q.item

\* C31: whenever some queue item is ANALYZING or VALIDATING, isProcessing and
\* the processingRef lock are both true.
C31_ActiveWhileInFlight ==
  InFlightItems # {} => (isProcessing /\ processingRef)

\* an item is in flight, and neither the signal nor the lock is set
C31_InFlightUnlocked ==
  InFlightItems # {} /\ ~isProcessing /\ ~processingRef

\* the delayed processNextItem of a forceProcessQueue has not run yet
ForceArmed == \E k \in DOMAIN timers : timers[k].kind = "force"

\* C32: forceProcessQueue releases the lock and the worker signal in whatever
\* state it is called, changes no queue item and not the membership of the
\* queue, and the item that is the first PENDING one after it is then started
\* (or removed by the caller).
C32_ForceReleasesAndResumes ==
  /\ [][forceProcessQueue =>
          (~processingRef' /\ ~isProcessing' /\ queue' = queue)]_vars
  /\ \A id \in 1..LiveItems :
       []((/\ ForceArmed
           /\ HasPending(queue)
           /\ queue[FindFirstPending(queue)].id = id)
          => <>(\A i \in DOMAIN queue : queue[i].id = id => queue[i].status # "PENDING"))

\* forceProcessQueue was called while an item was in flight, and the item
\* that was the first PENDING one at the call is in flight before the delayed
\* processNextItem has run
C32_Witness ==
  \E k \in DOMAIN timers :
    /\ timers[k].kind = "force"
    /\ \E j \in DOMAIN timers[k].snap : InFlight(timers[k].snap[j].status)
    /\ \E i \in DOMAIN queue :
         /\ queue[i].id = timers[k].snap[FindFirstPending(timers[k].snap)].id
         /\ InFlight(queue[i].status)

\* C33: enqueueing appends the new items at the end of the queue in the order
\* of submission, each PENDING with empty results, null spellingResult and no
\* errorMsg, and leaves every item already in the queue, and their order, as
\* they were.
C33_EnqueueAppends ==
  [][(\E k \in 1..lim.items : handleImagesSelected(k)) =>
       /\ Len(queue') > Len(queue)
       /\ SubSeq(queue', 1, Len(queue)) = queue
       /\ \A j \in (Len(queue) + 1)..Len(queue') :
            /\ queue'[j].id = nextId + (j - Len(queue)) - 1
            /\ queue'[j].status = "PENDING"
            /\ queue'[j].results = <<>>
            /\ queue'[j].spellingResult = "null"
            /\ queue'[j].errorMsg = <<>>]_vars

\* an item was enqueued behind one that had already been worked on
C33_Witness ==
  /\ Len(queue) = 2
  /\ queue[1].id = 1 /\ Terminal(queue[1].status)
  /\ queue[2] = NewItem(2)
  /\ nextId = 3
  /\ controls = 0

\* C34: the message of a failed item follows a fixed precedence: the error
\* whose message is exactly API_KEY_MISSING gives 'Falta API Key'; otherwise
\* status 429, or a message containing '429' or 'Quota', gives the rate-limit
\* message; otherwise a non-empty message gives its first 50 characters;
\* otherwise the default message.
C34_MessagePrecedence ==
  call.done =>
    LET m == call.arg.message
        rate == \/ call.arg.status = 429
                \/ \E i \in 1..(Len(m) - 2) : <<m[i], m[i + 1], m[i + 2]>> = <<"4","2","9">>
                \/ \E i \in 1..(Len(m) - 4) :
                     <<m[i], m[i + 1], m[i + 2], m[i + 3], m[i + 4]>> = <<"Q","u","o","t","a">>
        shown == IF Len(m) < 50 THEN Len(m) ELSE 50
    IN IF m = KeyMissingText THEN call.ret = MsgFaltaKey
       ELSE IF rate THEN call.ret = MsgRateLimit
       ELSE IF m # <<>>
            THEN Len(call.ret) = shown /\ \A i \in 1..shown : call.ret[i] = m[i]
       ELSE call.ret = MsgDefault

\* API_KEY_MISSING with status 429 gives 'Falta API Key'
C34_Witness ==
  /\ call.done
  /\ call.arg = [message |-> KeyMissingText, status |-> 429]
  /\ call.ret = MsgFaltaKey

\* C35: the two price checks of the result view agree: the item-level alert
\* (PriceIntegrityAlert) lists a product as a mismatch exactly when the
\* product's card (ProductCard) flags isPriceMismatch, for every visual price
\* including 0 and every catalog price including an absent one.
C35_AlertAgreesWithCard ==
  call.done => (call.ret.alertMismatch <=> call.ret.isPriceMismatch)

\* a visual price of 0 on a found product priced $1.05: listed by the alert,
\* not flagged by the card
C35_AlertWithoutCardFlag ==
  /\ call.done
  /\ call.arg.priceOnArt = Price(0)
  /\ call.arg.details.found
  /\ call.arg.details.price = Text(<<"$","1",".","0","5">>)
  /\ call.ret.alertMismatch
  /\ ~call.ret.isPriceMismatch

\* C36: runWithRetry makes exactly one wait after every failed attempt, the
\* final one included. A failed attempt leaves the call in one running wait;
\* the next attempt is made, one higher in number, only when that wait ends,
\* so the attempt numbered k+1 follows exactly k waits; and the call raises
\* only when the wait after attempt number `retries` ends.
C36_OneWaitPerFailedAttempt ==
  /\ [](\A p \in pipes :
          Cardinality({k \in DOMAIN timers :
                         timers[k].kind = "delay" /\ timers[k].pid = p.pid})
            = IF p.phase = "wait" THEN 1 ELSE 0)
  /\ [][LET WaitEnds(w) ==
              \E k \in DOMAIN timers, keyOk \in BOOLEAN :
                timers[k].pid = w.pid /\ delayExpires(k, keyOk)
        IN /\ \A p \in pipes, err \in lim.errors :
                remoteThrows(p.pid, err) =>
                  \E np \in pipes' :
                    /\ np.pid = p.pid /\ np.pc = p.pc /\ np.attempt = p.attempt
                    /\ np.phase = "wait"
                    /\ Cardinality({k \in DOMAIN timers' :
                                      /\ timers'[k].kind = "delay"
                                      /\ timers'[k].pid = p.pid}) = 1
           /\ \A p \in pipes, np \in pipes' :
                (/\ np.pid = p.pid /\ p.pc # "pause"
                 /\ np.pc = p.pc /\ np.attempt # p.attempt)
                => /\ np.attempt = p.attempt + 1
                   /\ p.phase = "wait"
                   /\ WaitEnds(p)
           /\ \A p \in pipes :
                (p.phase = "wait" /\ p.pc # "pause" /\ Finishes(p))
                => /\ p.attempt + 1 = RetriesOf(p.pc)
                   /\ WaitEnds(p)]_vars

\* the wait after the last permitted attempt of the extraction is running
C36_Witness ==
  \E p \in pipes :
    /\ p.pc = "extract" /\ p.phase = "wait" /\ p.attempt = ExtractRetries - 1
    /\ \E k \in DOMAIN timers :
         /\ timers[k].kind = "delay" /\ timers[k].pid = p.pid
         /\ timers[k].ms = waitTime(p.lastError, p.attempt)

\* ----------------------------------------------- the scheduler under fairness
\* a step of the program itself: the effect runs, a timer fires, a remote call
\* is answered
SystemStep ==
  \/ \E keyOk \in BOOLEAN : runEffect(keyOk)
  \/ \E k \in DOMAIN timers, keyOk \in BOOLEAN : forceTimerFires(k, keyOk)
  \/ \E k \in DOMAIN timers : cooldownExpires(k)
  \/ \E k \in DOMAIN timers, keyOk \in BOOLEAN : delayExpires(k, keyOk)
  \/ \E p \in pipes, n \in 0..lim.products, keyOk \in BOOLEAN : extractReturns(p.pid, n, keyOk)
  \/ \E p \in pipes, parses \in BOOLEAN, keyOk \in BOOLEAN : lookupReturns(p.pid, parses, keyOk)
  \/ \E p \in pipes, spelling \in {"neutral", "errors"} : spellingReturns(p.pid, spelling)
  \/ \E p \in pipes, err \in lim.errors : remoteThrows(p.pid, err)

SpecLive == InitLive /\ [][Next]_vars /\ WF_vars(SystemStep)

====
